---------------------------- MODULE Spec2Model ----------------------------
(***************************************************************************)
(* State-machine model of src/bot.py: the two periodic tasks (price_loop,  *)
(* news_loop), the process-wide seen-set posted_news_ids, and the pure     *)
(* helpers of the signal pipeline (ema, calc_vwap, parse_intraday,         *)
(* volume_spike, get_news' selection, polygon_options_flow's summary).     *)
(*                                                                         *)
(* Numbers: Python floats are modelled as exact reduced fractions          *)
(* [num, den]; float rounding and the float range are not modelled.        *)
(* Optional values are [tag |-> "None"] or [tag |-> "Some", val |-> v].    *)
(***************************************************************************)
EXTENDS Integers, Sequences, FiniteSets, TLC

VARIABLES
    posted_news_ids,  \* the module-level set of line 56
    npc,              \* news_loop: position of the task
    news,             \* news_loop: the list returned by get_news
    ni,               \* news_loop: index of the item the for-loop is at
    passed,           \* get_news: its local list `news` before the [:10] slice
    attempts,         \* channel: number of ch.send(embed=...) calls made, per id
    sendres,          \* news_loop: how the latest ch.send(embed=...) ended
    ppc,              \* price_loop: position of the task
    si,               \* price_loop: index into TICKERS
    fetched,          \* price_loop: its local `series` while a composed message waits for ch.send
    msg,              \* price_loop: the composed message while it waits for ch.send
    outcome,          \* price_loop: per symbol, how this cycle's fetch/parse ended
    sends,            \* channel: number of ch.send(msg) calls made, per symbol, this cycle
    psendres,         \* price_loop: how the latest ch.send(msg) ended
    polygon_key,      \* POLYGON_KEY is set (line 37)
    arg,              \* harness: the input a pure helper is applied to
    ret               \* harness: what the helper returned

vars == <<posted_news_ids, npc, news, ni, passed, attempts, sendres,
          ppc, si, fetched, msg, outcome, sends, psendres, polygon_key, arg, ret>>

newsVars == <<posted_news_ids, npc, news, ni, passed, attempts, sendres>>
priceVars == <<ppc, si, fetched, msg, outcome, sends, psendres, polygon_key>>
callVars == <<arg, ret>>

-----------------------------------------------------------------------------
(* Optional values and the outcome of a call that may raise *)

None == [tag |-> "None"]
Some(v) == [tag |-> "Some", val |-> v]
Raised == [tag |-> "Raise"]
Unset == [tag |-> "Unset"]

-----------------------------------------------------------------------------
(* Python list slices *)

Max2(a, b) == IF a >= b THEN a ELSE b
Min2(a, b) == IF a <= b THEN a ELSE b

\* s[:k]
PyHead(s, k) == SubSeq(s, 1, Min2(k, Len(s)))

\* s[-k:]   (k > 0)
PyTail(s, k) == SubSeq(s, Max2(Len(s) - k, 0) + 1, Len(s))

\* s[-a:-b]   (a > 0, b > 0)
PySliceNeg(s, a, b) == SubSeq(s, Max2(Len(s) - a, 0) + 1, Max2(Len(s) - b, 0))

\* s[1:]
PyRest(s) == SubSeq(s, 2, Len(s))

\* A for-loop over s[a..b], left to right, from the value e: Step(e, x) is
\* the loop body. The range is split in halves, which keeps the order of
\* the steps and the depth of the evaluation logarithmic (the test on `left`
\* has the left half evaluated before the right half is entered).
RECURSIVE FoldLeft(_, _, _, _, _)
FoldLeft(Step(_, _), s, a, b, e) ==
    IF a > b THEN e
    ELSE IF a = b THEN Step(e, s[a])
    ELSE LET mid == (a + b) \div 2
             left == FoldLeft(Step, s, a, mid, e)
         IN  IF left = left THEN FoldLeft(Step, s, mid + 1, b, left) ELSE e

-----------------------------------------------------------------------------
(* Exact arithmetic for float values *)

Abs(n) == IF n < 0 THEN -n ELSE n

RECURSIVE Gcd(_, _)
Gcd(a, b) == IF b = 0 THEN a ELSE Gcd(b, a % b)

\* n/d with d # 0, reduced, denominator positive
Frac(n, d) ==
    LET g == Gcd(Abs(n), Abs(d))
        s == IF d < 0 THEN -1 ELSE 1
    IN  [num |-> s * (n \div g), den |-> s * (d \div g)]

FInt(n) == [num |-> n, den |-> 1]
FAdd(x, y) == Frac(x.num * y.den + y.num * x.den, x.den * y.den)
FSub(x, y) == Frac(x.num * y.den - y.num * x.den, x.den * y.den)
FMul(x, y) == Frac(x.num * y.num, x.den * y.den)
FDiv(x, y) == Frac(x.num * y.den, x.den * y.num)
FLess(x, y) == x.num * y.den < y.num * x.den
FLeq(x, y) == x.num * y.den <= y.num * x.den

\* Python truth value of an Optional[float]: None and 0.0 are both falsy
Truthy(o) == o.tag = "Some" /\ o.val.num # 0

-----------------------------------------------------------------------------
(* Indicators: ema (lines 61-68), calc_vwap (lines 70-82), volume_spike (lines 132-142) *)

\* line 67
EmaStep(e, x, k) == FAdd(FMul(x, k), FMul(e, FSub(FInt(1), k)))

\* lines 65-67: the seed and the loop over series[1:] (period >= 1)
EmaLoop(series, k) ==
    LET rest == PyRest(series) IN
    FoldLeft(LAMBDA e, x : EmaStep(e, x, k), rest, 1, Len(rest), series[1])

\* the smoothing constant taken as 2/period
EmaK_noPlusOne(period) == Frac(2, period)

\* line 64
EmaK(period) == Frac(2, period + 1)

ema(series, period) ==
    IF Len(series) < period THEN None
    ELSE Some(EmaLoop(series, EmaK(period)))

\* zip(a, b)
Zip(a, b) == [i \in 1..Min2(Len(a), Len(b)) |-> <<a[i], b[i]>>]

\* lines 77-79: one bar added to cum_pv and cum_v; a price is <<h, l, c>>
VwapStep(acc, pv) ==
    LET hlc == pv[1]
        typical == FDiv(FAdd(FAdd(hlc[1], hlc[2]), hlc[3]), FInt(3))
    IN  [pv |-> FAdd(acc.pv, FMul(typical, FInt(pv[2]))), v |-> acc.v + pv[2]]

\* lines 72-82
calc_vwap(prices, volumes) ==
    IF Len(prices) = 0 \/ Len(volumes) = 0 \/ Len(prices) # Len(volumes) THEN None
    ELSE LET z == Zip(prices, volumes)
             acc == FoldLeft(VwapStep, z, 1, Len(z), [pv |-> FInt(0), v |-> 0])
         IN  IF acc.v = 0 THEN None ELSE Some(FDiv(acc.pv, FInt(acc.v)))

\* sum(s)
SumSeq(s) == FoldLeft(LAMBDA acc, x : acc + x, s, 1, Len(s), 0)

SPIKE_MIN == 25
SPIKE_SKIP == 5
SPIKE_BASE == 20
SPIKE_RATIO == 2

\* the baseline taken over the latest 20 bars, the current bar included
SpikeBaseline_latest(vols) == Frac(SumSeq(PyTail(vols, SPIKE_BASE)), SPIKE_BASE)

\* line 135
SpikeBaseline(vols) == Frac(SumSeq(PySliceNeg(vols, SPIKE_MIN, SPIKE_SKIP)), SPIKE_BASE)

volume_spike(vols) ==
    IF Len(vols) < SPIKE_MIN THEN None
    ELSE LET baseline == SpikeBaseline(vols)
             current == vols[Len(vols)]
         IN  IF FLeq(baseline, FInt(0)) THEN None
             ELSE LET ratio == FDiv(FInt(current), baseline) IN
                  IF FLeq(FInt(SPIKE_RATIO), ratio)
                  THEN Some([ratio |-> ratio, current |-> current])
                  ELSE None

-----------------------------------------------------------------------------
(* Bar series: parse_intraday (lines 108-130) *)

\* A raw JSON field of a bar: a number or numeric string, given in tenths
\* ("12.5" is 125); or a missing key, a string that is no number, or null.
Num(tenths) == [t |-> "num", tenths |-> tenths]
Missing == [t |-> "missing"]
Text == [t |-> "text"]
Null == [t |-> "null"]

RawBar(close, high, low, volume) ==
    [shape |-> "obj", close |-> close, high |-> high, low |-> low, volume |-> volume]
NonObjectBar == [shape |-> "nonobj"]

\* v["..."] then float(...): KeyError, ValueError or TypeError on a field
\* that is missing, no number, or null
PyFloat(x) == IF x.t = "num" THEN Some(Frac(x.tenths, 10)) ELSE Raised

\* int(f): truncation toward zero
PyInt(f) == IF f.num >= 0 THEN f.num \div f.den ELSE -((-f.num) \div f.den)

\* line 115 without the sort: the items in the order the payload delivers them
SortedItems_unsorted(items) == items

\* kv put into a list sorted by key, after the entries whose key is not greater
InsertByKey(sorted, kv) ==
    LET pos == Cardinality({j \in 1..Len(sorted) : sorted[j][1] <= kv[1]}) IN
    SubSeq(sorted, 1, pos) \o <<kv>> \o SubSeq(sorted, pos + 1, Len(sorted))

\* a stable sort by key: the items inserted one by one, in their order
SortByKey(items) == FoldLeft(InsertByKey, items, 1, Len(items), <<>>)

\* line 115: sorted(ts.items(), key=lambda kv: kv[0])
SortedItems(items) == SortByKey(items)

\* lines 119-126: one bar converted, or the raise of the first bad field
ParseBar(v) ==
    IF v.shape # "obj" THEN Raised
    ELSE LET close == PyFloat(v.close)
             high == PyFloat(v.high)
             low == PyFloat(v.low)
             vol == PyFloat(v.volume)
         IN  IF \E f \in {close, high, low, vol} : f.tag = "Raise" THEN Raised
             ELSE Some([close |-> close.val, high |-> high.val, low |-> low.val,
                        vol |-> PyInt(vol.val)])

\* lines 119-126: one pass of the loop over the sorted items; a raise ends it
ParseStep(acc, kv) ==
    IF acc.tag = "Raise" THEN acc
    ELSE LET b == ParseBar(kv[2]) IN
         IF b.tag = "Raise" THEN Raised
         ELSE Some([closes |-> Append(acc.val.closes, b.val.close),
                    hlc |-> Append(acc.val.hlc, <<b.val.high, b.val.low, b.val.close>>),
                    vols |-> Append(acc.val.vols, b.val.vol)])

\* lines 116-126
ParseItems(items) ==
    FoldLeft(ParseStep, items, 1, Len(items),
             Some([closes |-> <<>>, hlc |-> <<>>, vols |-> <<>>]))

\* What get_intraday may hand over, besides None:
\*   kind "falsy":  a JSON value that is falsy ({} or [])
\*   kind "nonobj": a truthy JSON value that is no object
\*   kind "nots":   an object without "Time Series (1min)" (or with a falsy one)
\*   kind "tsbad":  an object whose "Time Series (1min)" is truthy and no object
\*   kind "ts":     an object whose time series holds `items`, a sequence of
\*                  <<timestamp, bar>> in the payload's key order
Payload(kind, items) == Some([kind |-> kind, items |-> items])

\* lines 110-130; the except clause turns every raise into None
parse_intraday(series_json) ==
    CASE series_json.kind \in {"nonobj", "tsbad"} -> None
      [] series_json.kind \in {"falsy", "nots"} -> None
      [] OTHER ->
           IF Len(series_json.items) = 0 THEN None
           ELSE LET r == ParseItems(SortedItems(series_json.items)) IN
                IF r.tag = "Raise" THEN None
                ELSE Some([closes |-> r.val.closes, hlc |-> r.val.hlc, vols |-> r.val.vols,
                           last |-> r.val.closes[Len(r.val.closes)]])

-----------------------------------------------------------------------------
(* Options flow: polygon_options_flow (lines 170-189) *)

\* A raw contract of the snapshot's "results":
\*   ctype:  "call", "put", another string, "missing" (no "details" or no
\*           "contract_type"), or "null" ("details" is null);
\*   volume: IntVol(n), a JSON number given in tenths (Num), "missing" (no
\*           "day" or no "volume"), Null, Text, or DayNull ("day" is null);
\* or a JSON value that is no object.
IntVol(n) == [t |-> "int", v |-> n]
DayNull == [t |-> "daynull"]
RawContract(ctype, volume) == [shape |-> "obj", ctype |-> ctype, volume |-> volume]
NonObjectContract == [shape |-> "nonobj", ctype |-> "missing", volume |-> Missing]

\* x.get("details", {}).get("contract_type") == want
ContractTypeIs(x, want) ==
    IF x.shape # "obj" \/ x.ctype = "null" THEN Raised ELSE Some(x.ctype = want)

\* int(x.get("day", {}).get("volume", 0))
ContractVolume(x) ==
    CASE x.volume.t = "int" -> Some(x.volume.v)
      [] x.volume.t = "num" -> Some(PyInt(Frac(x.volume.tenths, 10)))
      [] x.volume.t = "missing" -> Some(0)
      [] OTHER -> Raised

\* lines 183, 184: sum(int(volume) for x in results if type == want)
RECURSIVE SumVolumes(_, _, _)
SumVolumes(results, want, acc) ==
    IF Len(results) = 0 THEN Some(acc)
    ELSE LET x == Head(results)
             is == ContractTypeIs(x, want)
         IN  IF is.tag = "Raise" THEN Raised
             ELSE IF ~is.val THEN SumVolumes(Tail(results), want, acc)
             ELSE LET v == ContractVolume(x) IN
                  IF v.tag = "Raise" THEN Raised
                  ELSE SumVolumes(Tail(results), want, acc + v.val)

\* What fetch_json hands polygon_options_flow: None, or a JSON value of
\*   kind "falsy" ({} or []), "nonobj" (truthy, no object), or "results"
\*   (an object; `results` is its list, empty when the key is absent or null)
Snapshot(kind, results) == Some([kind |-> kind, results |-> results])

\* lines 171-189
polygon_options_flow(configured, data) ==
    IF ~configured THEN None
    ELSE IF data = None \/ data.val.kind = "falsy" THEN None
    ELSE IF data.val.kind = "nonobj" THEN None
    ELSE LET calls_vol == SumVolumes(data.val.results, "call", 0)
             puts_vol == SumVolumes(data.val.results, "put", 0)
         IN  IF calls_vol.tag = "Raise" \/ puts_vol.tag = "Raise" THEN None
             ELSE IF calls_vol.val = 0 /\ puts_vol.val = 0 THEN None
             ELSE Some([calls |-> calls_vol.val, puts |-> puts_vol.val])

-----------------------------------------------------------------------------
(* News: get_news (lines 144-165) *)

NEWS_CAP == 10

\* bounds of the feeds the provider is taken to return: a feed is a window
\* of ids lo, lo+1, ... that is short (up to MaxShort items) or longer than
\* the cap (by up to MaxOver items), with at most one item replaced
MaxLo == 1
MaxShort == 2
MaxOver == 1

FeedLens == (0..MaxShort) \cup ((NEWS_CAP + 1)..(NEWS_CAP + MaxOver))

\* A raw feed item: a JSON object with "uuid"/"url" (0: absent or empty)
\* and "ticker_sentiment", or a JSON value that is not an object.
\* tick = "bad": some "ticker" value is truthy and not a string.
RawItem(uuid, url, tick) == [shape |-> "obj", uuid |-> uuid, url |-> url, tick |-> tick]
RawNonObject == [shape |-> "nonobj", uuid |-> 0, url |-> 0, tick |-> "ok"]

FeedWindow(lo, len) == [i \in 1..len |-> RawItem(lo + i - 1, 0, "ok")]

\* what position p of a window may hold instead: k is the id the window has there
ItemVariants(k, first) ==
    { RawItem(0, 0, "ok"),          \* neither uuid nor url
      RawItem(0, k, "ok"),          \* url only
      RawItem(first, k, "ok"),      \* carries the uuid of the feed's first item
      RawItem(k, k, "bad"),
      RawNonObject }

FeedsAt(lo, len) ==
    {FeedWindow(lo, len)} \cup
    UNION { { [FeedWindow(lo, len) EXCEPT ![p] = v] : v \in ItemVariants(lo + p - 1, lo) } :
            p \in {1, 2, len} \cap (1..len) }

Feeds == UNION { FeedsAt(lo, len) : lo \in 1..MaxLo, len \in FeedLens }

\* What fetch_json hands get_news: None, a JSON value that is no object,
\* an object without "feed", an object whose "feed" is null, an object with a feed.
NewsResponses ==
    { [kind |-> k, feed |-> <<>>] : k \in {"none", "nonobj", "nofeed", "feednull"} }
    \cup { [kind |-> "feed", feed |-> f] : f \in Feeds }

\* line 158: item.get("uuid") or item.get("url")
ItemUid(item) == IF item.uuid # 0 THEN item.uuid ELSE item.url

\* lines 156-164: the for-loop over feed; item.get raises on a non-object
RECURSIVE NormalizeFeed(_, _, _)
NormalizeFeed(feed, seen, acc) ==
    IF Len(feed) = 0 THEN Some(acc)
    ELSE LET item == Head(feed) IN
         IF item.shape # "obj" THEN Raised
         ELSE LET uid == ItemUid(item) IN
              IF uid = 0 \/ uid \in seen
              THEN NormalizeFeed(Tail(feed), seen, acc)
              ELSE NormalizeFeed(Tail(feed), seen,
                       Append(acc, [id |-> uid, url |-> item.url, tickers |-> item.tick]))

\* lines 153-164: get_news' local list `news` before the slice, or the raise
GetNewsList(data, seen) ==
    CASE data.kind \in {"none", "nofeed"} -> Some(<<>>)
      [] data.kind \in {"nonobj", "feednull"} -> Raised
      [] OTHER -> NormalizeFeed(data.feed, seen, <<>>)

\* line 165
get_news(data, seen) ==
    LET l == GetNewsList(data, seen) IN
    IF l.tag = "Raise" THEN Raised ELSE Some(PyHead(l.val, NEWS_CAP))

-----------------------------------------------------------------------------
(* News: news_loop (lines 257-277) and on_ready (lines 203-209) *)

Ids == 1..(MaxLo + NEWS_CAP + MaxOver - 1)

NewsIdle ==
    /\ posted_news_ids = {}
    /\ npc = "idle"
    /\ news = <<>>
    /\ ni = 0
    /\ passed = <<>>
    /\ attempts = [i \in Ids |-> 0]
    /\ sendres = "none"

\* the scheduler starts an iteration: line 259 awaits ensure_channel
NewsLoopStart ==
    /\ npc = "idle"
    /\ npc' = "ensure"
    /\ news' = <<>>
    /\ ni' = 0
    /\ passed' = <<>>
    /\ UNCHANGED <<posted_news_ids, attempts, sendres>>

\* ensure_channel returns a text channel (lines 194-201)
NewsEnsureChannelOk ==
    /\ npc = "ensure"
    /\ npc' = "fetch"
    /\ UNCHANGED <<posted_news_ids, news, ni, passed, attempts, sendres>>

\* fetch_channel raises, or the channel is no text channel (lines 198-200)
NewsEnsureChannelRaise ==
    /\ npc = "ensure"
    /\ npc' = "failed"
    /\ UNCHANGED <<posted_news_ids, news, ni, passed, attempts, sendres>>

\* the add of line 265 left out
MarkSeen_skipped(seen, n) == seen

\* line 265
MarkSeen(seen, n) == seen \cup {n.id}

\* lines 261-263: get_news returns; an empty list ends the iteration
NewsGetNews(data) ==
    /\ npc = "fetch"
    /\ LET r == get_news(data, posted_news_ids)
           l == GetNewsList(data, posted_news_ids)
       IN  IF r.tag = "Raise"
           THEN /\ npc' = "failed"
                /\ UNCHANGED <<news, ni, passed>>
           ELSE /\ news' = r.val
                /\ passed' = l.val
                /\ IF Len(r.val) = 0
                   THEN npc' = "idle" /\ ni' = 0
                   ELSE npc' = "loop" /\ ni' = 1
    /\ UNCHANGED <<posted_news_ids, attempts, sendres>>

\* lines 265-274: the id is added, the embed composed, ch.send called.
\* ", ".join(n["tickers"]) raises on a ticker that is no string.
NewsPublish ==
    /\ npc = "loop"
    /\ posted_news_ids' = MarkSeen(posted_news_ids, news[ni])
    /\ IF news[ni].tickers = "bad"
       THEN npc' = "failed" /\ UNCHANGED attempts
       ELSE /\ npc' = "sending"
            /\ attempts' = [attempts EXCEPT ![news[ni].id] = @ + 1]
    /\ UNCHANGED <<news, ni, passed, sendres>>

\* lines 273-277: ch.send returns or raises (logged), then the sleep;
\* the loop goes on to the next item or the iteration ends
NewsSendReturns(res) ==
    /\ npc = "sending"
    /\ sendres' = res
    /\ IF ni < Len(news)
       THEN npc' = "loop" /\ ni' = ni + 1
       ELSE npc' = "idle" /\ UNCHANGED ni
    /\ UNCHANGED <<posted_news_ids, news, passed, attempts>>

NewsSendOk == NewsSendReturns("ok")

\* lines 275-276: the exception is logged and swallowed
NewsSendFail == NewsSendReturns("failed")

\* lines 206-209: a later on_ready starts a loop that is not running
OnReadyNews ==
    /\ npc = "failed"
    /\ npc' = "idle"
    /\ UNCHANGED <<posted_news_ids, news, ni, passed, attempts, sendres>>

-----------------------------------------------------------------------------
(* Prices: price_loop (lines 211-255) and on_ready (lines 203-209) *)

\* the configured symbol list (line 39), of NumTickers symbols
NumTickers == 2
TICKERS == [i \in 1..NumTickers |-> i]

EMA_FAST == 9
EMA_SLOW == 21
EMA_WINDOW == 50
VWAP_WINDOW == 120

\* f"{x:.2f}", f"{x:.1f}": x rounded to `scale` parts of one (ties to even);
\* the result is the number of parts
Fmt(x, scale) ==
    LET n == x.num * scale
        q == n \div x.den
        r == n - q * x.den
    IN  IF 2 * r < x.den THEN q
        ELSE IF 2 * r > x.den THEN q + 1
        ELSE IF q % 2 = 0 THEN q ELSE q + 1

\* lines 237-240
EmaText(ema9, ema21) ==
    IF Truthy(ema9) /\ Truthy(ema21)
    THEN Some([fast |-> Fmt(ema9.val, 100), slow |-> Fmt(ema21.val, 100),
               trend |-> IF FLess(ema21.val, ema9.val) THEN "up" ELSE "down"])
    ELSE None

\* line 242
VwapText(vwap_val) == IF Truthy(vwap_val) THEN Some(Fmt(vwap_val.val, 100)) ELSE None

\* lines 231-235
SpikeText(spike) == IF spike # None THEN Some(Fmt(spike.val.ratio, 10)) ELSE None

\* lines 246-248
PolyText(snap) == IF snap # None THEN snap ELSE None

\* lines 222-242 and 250: the message of a parsed symbol, before the options flow
Compose(sym, parsed) ==
    LET closes == parsed.closes
        last == parsed.last
        change == IF Len(closes) > 1 THEN FSub(last, closes[Len(closes) - 1]) ELSE FInt(0)
        up == FLeq(FInt(0), change)
        ema9 == ema(PyTail(closes, EMA_WINDOW), EMA_FAST)
        ema21 == ema(PyTail(closes, EMA_WINDOW), EMA_SLOW)
        vwap_val == calc_vwap(PyTail(parsed.hlc, VWAP_WINDOW), PyTail(parsed.vols, VWAP_WINDOW))
        spike == volume_spike(parsed.vols)
    IN  [dot |-> IF up THEN "green" ELSE "red",
         sym |-> sym,
         last |-> Fmt(last, 100),
         change |-> Fmt(change, 100),
         spike |-> SpikeText(spike),
         ema |-> EmaText(ema9, ema21),
         vwap |-> VwapText(vwap_val),
         poly |-> None]

\* where the for-loop of line 215 goes after symbol i
NextSymbol(i) ==
    IF i < Len(TICKERS) THEN [pc |-> "fetch", si |-> i + 1] ELSE [pc |-> "idle", si |-> i]

\* a `return` in place of the `continue` of line 218
OnFetchFailure_return(i) == [pc |-> "idle", si |-> i]

\* lines 217-218: continue
OnFetchFailure(i) == NextSymbol(i)

\* lines 220-221: continue
OnParseFailure(i) == NextSymbol(i)

PriceIdle ==
    /\ ppc = "idle"
    /\ si = 0
    /\ fetched = None
    /\ msg = None
    /\ outcome = [i \in 1..NumTickers |-> "pending"]
    /\ sends = [i \in 1..NumTickers |-> 0]
    /\ psendres = "none"

\* the scheduler starts an iteration: line 213 awaits ensure_channel
PriceLoopStart ==
    /\ ppc = "idle"
    /\ ppc' = "ensure"
    /\ si' = 0
    /\ fetched' = None
    /\ msg' = None
    /\ outcome' = [i \in 1..NumTickers |-> "pending"]
    /\ sends' = [i \in 1..NumTickers |-> 0]
    /\ UNCHANGED <<psendres, polygon_key>>

\* ensure_channel returns a text channel; the loop awaits the first fetch
PriceEnsureChannelOk ==
    /\ ppc = "ensure"
    /\ ppc' = NextSymbol(0).pc
    /\ si' = NextSymbol(0).si
    /\ UNCHANGED <<fetched, msg, outcome, sends, psendres, polygon_key>>

\* fetch_channel raises, or the channel is no text channel (lines 198-200)
PriceEnsureChannelRaise ==
    /\ ppc = "ensure"
    /\ ppc' = "failed"
    /\ UNCHANGED <<si, fetched, msg, outcome, sends, psendres, polygon_key>>

\* lines 216-252: get_intraday returns p for TICKERS[si]; the symbol is
\* skipped, or parsed and composed, and then the options flow is awaited
\* (POLYGON_KEY set) or ch.send called
PriceGetIntraday(p) ==
    /\ ppc = "fetch"
    /\ IF p = None \/ p.val.kind = "falsy"
       THEN /\ outcome' = [outcome EXCEPT ![si] = "nofetch"]
            /\ ppc' = OnFetchFailure(si).pc
            /\ si' = OnFetchFailure(si).si
            /\ UNCHANGED <<fetched, msg, sends>>
       ELSE LET parsed == parse_intraday(p.val) IN
            IF parsed = None
            THEN /\ outcome' = [outcome EXCEPT ![si] = "noparse"]
                 /\ ppc' = OnParseFailure(si).pc
                 /\ si' = OnParseFailure(si).si
                 /\ UNCHANGED <<fetched, msg, sends>>
            ELSE /\ outcome' = [outcome EXCEPT ![si] = "parsed"]
                 /\ fetched' = p
                 /\ msg' = Some(Compose(TICKERS[si], parsed.val))
                 /\ IF polygon_key
                    THEN ppc' = "polygon" /\ UNCHANGED sends
                    ELSE ppc' = "sending" /\ sends' = [sends EXCEPT ![si] = @ + 1]
                 /\ UNCHANGED si
    /\ UNCHANGED <<psendres, polygon_key>>

\* lines 246-252: the snapshot fetch returns d; ch.send is called
PricePolygon(d) ==
    /\ ppc = "polygon"
    /\ msg' = Some([msg.val EXCEPT !.poly = PolyText(polygon_options_flow(polygon_key, d))])
    /\ ppc' = "sending"
    /\ sends' = [sends EXCEPT ![si] = @ + 1]
    /\ UNCHANGED <<si, fetched, outcome, psendres, polygon_key>>

\* lines 251-255: ch.send returns or raises (logged), then the sleep
PriceSendReturns(res) ==
    /\ ppc = "sending"
    /\ psendres' = res
    /\ ppc' = NextSymbol(si).pc
    /\ si' = NextSymbol(si).si
    /\ fetched' = None
    /\ msg' = None
    /\ UNCHANGED <<outcome, sends, polygon_key>>

PriceSendOk == PriceSendReturns("ok")

\* lines 253-254: the exception is logged and swallowed
PriceSendFail == PriceSendReturns("failed")

\* lines 206-207: a later on_ready starts a loop that is not running
OnReadyPrice ==
    /\ ppc = "failed"
    /\ ppc' = "idle"
    /\ UNCHANGED <<si, fetched, msg, outcome, sends, psendres, polygon_key>>

-----------------------------------------------------------------------------
(* Defaults of the parts a specification leaves alone *)

CallIdle ==
    /\ arg = Unset
    /\ ret = Unset

-----------------------------------------------------------------------------
(* The news task *)

InitNews == NewsIdle /\ PriceIdle /\ polygon_key = FALSE /\ CallIdle

NextNews ==
    \/ NewsLoopStart /\ UNCHANGED <<priceVars, callVars>>
    \/ NewsEnsureChannelOk /\ UNCHANGED <<priceVars, callVars>>
    \/ NewsEnsureChannelRaise /\ UNCHANGED <<priceVars, callVars>>
    \/ (\E data \in NewsResponses : NewsGetNews(data)) /\ UNCHANGED <<priceVars, callVars>>
    \/ NewsPublish /\ UNCHANGED <<priceVars, callVars>>
    \/ NewsSendOk /\ UNCHANGED <<priceVars, callVars>>
    \/ NewsSendFail /\ UNCHANGED <<priceVars, callVars>>
    \/ OnReadyNews /\ UNCHANGED <<priceVars, callVars>>

SpecNews == InitNews /\ [][NextNews]_vars

-----------------------------------------------------------------------------
(* Claims about the news task, checked under SpecNews *)

\* C1: over all cycles and feeds, ch.send is called at most once per news
\* identifier in the lifetime of the process.
PublishAtMostOnce == \A i \in Ids : attempts[i] <= 1

\* C2: a cycle selects at most 10 items, and the identifiers of the items
\* that passed the filter beyond the first 10 are not added to the seen-set
\* by that cycle.
CapAndSurplusUnmarked ==
    /\ Len(news) <= NEWS_CAP
    /\ \A p \in (NEWS_CAP + 1)..Len(passed) : passed[p].id \notin posted_news_ids

\* C4: no cycle ends with an unhandled error, whatever the collaborators answer.
NoTaskFailure == npc # "failed" /\ ppc # "failed"

\* C9 as stated: every selected item is in the seen-set from selection on,
\* before the publish of any item of the cycle.
SelectedMarkedAtSelection ==
    npc \in {"loop", "sending"} =>
        \A k \in 1..Len(news) : news[k].id \in posted_news_ids

\* C9 amended: an item's identifier is registered when the loop reaches that
\* item, before its own ch.send: every identifier a publish was attempted
\* for is in the seen-set, whatever the publish did, and an item the loop has
\* not reached is registered only if a reached item carries its identifier.
MarkedBeforeOwnPublish ==
    /\ \A i \in Ids : attempts[i] > 0 => i \in posted_news_ids
    /\ npc = "sending" => news[ni].id \in posted_news_ids
    /\ npc = "loop" =>
          /\ \A k \in 1..(ni - 1) : news[k].id \in posted_news_ids
          /\ \A k \in ni..Len(news) :
                news[k].id \in posted_news_ids =>
                    \E j \in 1..(ni - 1) : news[j].id = news[k].id

\* the first publish of a cycle failed: its item stays in the seen-set and
\* the next selected item is not registered yet
FailedPublishStaysMarked ==
    /\ npc = "loop"
    /\ ni = 2
    /\ sendres = "failed"
    /\ attempts[news[1].id] = 1
    /\ news[1].id \in posted_news_ids
    /\ news[2].id \notin posted_news_ids

-----------------------------------------------------------------------------
(* ema applied to bounded inputs *)

MaxSeriesLen == 3
MaxPeriod == 3
MaxClose == 3

RECURSIVE SeqsUpTo(_, _)
SeqsUpTo(S, n) ==
    IF n = 0 THEN {<<>>}
    ELSE LET shorter == SeqsUpTo(S, n - 1) IN
         shorter \cup { Append(q, x) : q \in {r \in shorter : Len(r) = n - 1}, x \in S }

EmaInputs ==
    { [series |-> [i \in 1..Len(q) |-> FInt(q[i])], period |-> p] :
          q \in SeqsUpTo(0..MaxClose, MaxSeriesLen), p \in 1..MaxPeriod }
    \cup { [series |-> <<FInt(10), FInt(20), FInt(30)>>, period |-> 2] }

InitEma == NewsIdle /\ PriceIdle /\ polygon_key = FALSE /\ arg \in EmaInputs /\ ret = Unset

CallEma ==
    /\ ret = Unset
    /\ ret' = ema(arg.series, arg.period)
    /\ UNCHANGED arg

NextEma == CallEma /\ UNCHANGED <<newsVars, priceVars>>

SpecEma == InitEma /\ [][NextEma]_vars

RECURSIVE Pow(_, _)
Pow(b, n) == IF n = 0 THEN 1 ELSE b * Pow(b, n - 1)

\* (1-k)^n x_0 + sum_{i=1..n} k (1-k)^(n-i) x_i with k = 2/(p+1), over (p+1)^n:
\* the recurrence e_i = x_i*k + e_(i-1)*(1-k) unrolled, x_0 the seed
RECURSIVE EmaWeighted(_, _, _)
EmaWeighted(x, p, i) ==
    IF i = 0 THEN 0
    ELSE 2 * Pow(p - 1, Len(x) - 1 - i) * Pow(p + 1, i - 1) * x[i + 1].num
         + EmaWeighted(x, p, i - 1)

EmaUnrolled(x, p) ==
    Frac(Pow(p - 1, Len(x) - 1) * x[1].num + EmaWeighted(x, p, Len(x) - 1),
         Pow(p + 1, Len(x) - 1))

\* C7: ema is absent exactly when len(series) < period; otherwise it is the
\* recurrence e_i = x_i*k + e_(i-1)*(1-k), k = 2/(period+1), seeded with the
\* first element and run left to right over the rest; [10,20,30] with
\* period 2 gives 230/9.
EmaSeededRecurrence ==
    ret # Unset =>
        /\ (ret = None) <=> (Len(arg.series) < arg.period)
        /\ ret # None => ret.val = EmaUnrolled(arg.series, arg.period)
        /\ (arg.series = <<FInt(10), FInt(20), FInt(30)>> /\ arg.period = 2)
               => ret = Some(Frac(230, 9))

EmaExampleComputed ==
    /\ arg.series = <<FInt(10), FInt(20), FInt(30)>>
    /\ arg.period = 2
    /\ ret = Some(Frac(230, 9))

-----------------------------------------------------------------------------
(* volume_spike applied to bounded inputs *)

MaxVol == 2
MaxLastVol == 5

\* len volumes, all equal to base, except the marked positions (from the end)
SpikeSeries(len, base, last, atSkip, atSkip1, atMin, atMin1) ==
    [i \in 1..len |->
        CASE i = len -> last
          [] i = len - SPIKE_SKIP + 1 -> atSkip
          [] i = len - SPIKE_SKIP -> atSkip1
          [] i = len - SPIKE_MIN + 1 -> atMin
          [] i = len - SPIKE_MIN -> atMin1
          [] OTHER -> base]

SpikeInputs ==
    { SpikeSeries(len, b, last, s, s1, m, m1) :
          len \in {0, 1, SPIKE_MIN - 1, SPIKE_MIN, SPIKE_MIN + 1},
          b \in {0, 1}, last \in 0..MaxLastVol,
          s \in 0..MaxVol, s1 \in 0..MaxVol, m \in 0..MaxVol, m1 \in 0..MaxVol }

InitSpike == NewsIdle /\ PriceIdle /\ polygon_key = FALSE /\ arg \in SpikeInputs /\ ret = Unset

CallVolumeSpike ==
    /\ ret = Unset
    /\ ret' = volume_spike(arg)
    /\ UNCHANGED arg

NextSpike == CallVolumeSpike /\ UNCHANGED <<newsVars, priceVars>>

SpecSpike == InitSpike /\ [][NextSpike]_vars

\* the sum of the 20 samples that precede the most recent 5
RECURSIVE SumRange(_, _, _)
SumRange(v, a, b) == IF a > b THEN 0 ELSE v[a] + SumRange(v, a + 1, b)

Preceding20(v) == SumRange(v, Len(v) - 24, Len(v) - 5)

\* C6: volume_spike returns a signal iff there are at least 25 samples, the
\* mean of the 20 samples preceding the most recent 5 is > 0 and the most
\* recent sample is at least 2.0 times that mean; the signal is that ratio
\* with the most recent sample, and every other case returns absent.
SpikeIffThreshold ==
    ret # Unset =>
        LET n == Len(arg)
            fires == /\ n >= 25
                     /\ Preceding20(arg) > 0
                     /\ 20 * arg[n] >= 2 * Preceding20(arg)
        IN  /\ fires => ret = Some([ratio |-> Frac(20 * arg[n], Preceding20(arg)),
                                    current |-> arg[n]])
            /\ ~fires => ret = None

\* a spike of exactly 2.0 over 25 samples whose latest five bars differ from the baseline
SpikeAtThreshold ==
    /\ Len(arg) = 25
    /\ arg[21] = 2
    /\ arg[25] = 2
    /\ Preceding20(arg) = 20
    /\ ret = Some([ratio |-> FInt(2), current |-> 2])

-----------------------------------------------------------------------------
(* parse_intraday applied to bounded payloads *)

MaxBars == 3

\* the bars a payload of this specification is made of: well-formed ones,
\* and at most one bar with a missing or malformed field
GoodBars ==
    { RawBar(Num(10), Num(12), Num(8), Num(50)),
      RawBar(Num(25), Num(25), Num(25), Num(127)) }

BadBars ==
    { RawBar(Missing, Num(12), Num(8), Num(50)),
      RawBar(Num(10), Text, Num(8), Num(50)),
      RawBar(Num(10), Num(12), Null, Num(50)),
      RawBar(Num(10), Num(12), Num(8), Missing),
      RawBar(Num(10), Num(12), Num(8), Text),
      NonObjectBar }

BarMaps(n) ==
    [1..n -> GoodBars]
    \cup { [g EXCEPT ![p] = b] : g \in [1..n -> GoodBars], p \in 1..n, b \in BadBars }

\* the orders in which the keys 1..n of an object can be delivered
Perms(n) == { q \in [1..n -> 1..n] : \A a, b \in 1..n : a # b => q[a] # q[b] }

ParseInputs ==
    { [kind |-> k, items |-> <<>>] : k \in {"falsy", "nonobj", "nots", "tsbad", "ts"} }
    \cup UNION { { [kind |-> "ts", items |-> [i \in 1..n |-> <<q[i], bars[q[i]]>>]] :
                       q \in Perms(n), bars \in BarMaps(n) } :
                 n \in 1..MaxBars }

InitParse == NewsIdle /\ PriceIdle /\ polygon_key = FALSE /\ arg \in ParseInputs /\ ret = Unset

CallParseIntraday ==
    /\ ret = Unset
    /\ ret' = parse_intraday(arg)
    /\ UNCHANGED arg

NextParse == CallParseIntraday /\ UNCHANGED <<newsVars, priceVars>>

SpecParse == InitParse /\ [][NextParse]_vars

\* the same mapping delivered in another key order
Reordered(items) ==
    { [i \in 1..Len(items) |-> items[q[i]]] : q \in Perms(Len(items)) }

\* the bar of the payload whose timestamp is the i-th smallest
BarAtRank(items, i) ==
    LET k == CHOOSE k \in 1..Len(items) :
                 Cardinality({j \in 1..Len(items) : items[j][1] < items[k][1]}) = i - 1
    IN  items[k][2]

WellFormedField(x) == x.t = "num"
WellFormedBar(b) ==
    /\ b.shape = "obj"
    /\ WellFormedField(b.close) /\ WellFormedField(b.high)
    /\ WellFormedField(b.low) /\ WellFormedField(b.volume)

-----------------------------------------------------------------------------
(* polygon_options_flow applied to bounded snapshots *)

MaxContracts == 3

SomeContracts ==
    { RawContract("call", IntVol(50)),
      RawContract("put", IntVol(30)),
      RawContract("call", IntVol(0)),
      RawContract("put", Num(127)),
      RawContract("call", Missing),
      RawContract("put", Null),
      RawContract("call", Text),
      RawContract("call", DayNull),
      RawContract("other", IntVol(7)),
      RawContract("missing", IntVol(7)),
      RawContract("missing", Text),
      RawContract("null", IntVol(7)),
      NonObjectContract }

OptsInputs ==
    { [configured |-> c, data |-> d] :
          c \in BOOLEAN,
          d \in {None, Snapshot("falsy", <<>>), Snapshot("nonobj", <<>>)}
                \cup { Snapshot("results", r) : r \in SeqsUpTo(SomeContracts, MaxContracts) } }

InitOpts == NewsIdle /\ PriceIdle /\ polygon_key = FALSE /\ arg \in OptsInputs /\ ret = Unset

CallPolygonOptionsFlow ==
    /\ ret = Unset
    /\ ret' = polygon_options_flow(arg.configured, arg.data)
    /\ UNCHANGED arg

NextOpts == CallPolygonOptionsFlow /\ UNCHANGED <<newsVars, priceVars>>

SpecOpts == InitOpts /\ [][NextOpts]_vars

\* a contract with a declared type and a day volume that is a number
WellFormedContract(x, want) ==
    x.shape = "obj" /\ x.ctype = want /\ x.volume.t \in {"int", "num"}

DayVolume(x) == IF x.volume.t = "int" THEN x.volume.v ELSE x.volume.tenths \div 10

RECURSIVE WellFormedTotal(_, _)
WellFormedTotal(results, want) ==
    IF Len(results) = 0 THEN 0
    ELSE (IF WellFormedContract(Head(results), want) THEN DayVolume(Head(results)) ELSE 0)
         + WellFormedTotal(Tail(results), want)

\* C5: the totals are the sums of the day volumes of the well-formed
\* contracts of each type, a contract with a missing or malformed type or
\* volume adding zero; the result is absent exactly when both totals are
\* zero, the data is unavailable, or the integration is not configured.
OptionsTotalsIgnoreMalformed ==
    ret # Unset =>
        LET available == arg.configured /\ arg.data # None /\ arg.data.val.kind = "results"
            calls == WellFormedTotal(arg.data.val.results, "call")
            puts == WellFormedTotal(arg.data.val.results, "put")
        IN  IF ~available \/ (calls = 0 /\ puts = 0)
            THEN ret = None
            ELSE ret = Some([calls |-> calls, puts |-> puts])

-----------------------------------------------------------------------------
(* The price task *)

\* a payload of n bars delivered newest first: closes c (the latest cl),
\* volumes v (the latest vl), high = low = close, all in tenths; beyond
\* EMA_WINDOW bars the oldest bar differs from the rest
PriceBar(n, t, c, cl, v, vl) ==
    LET close == IF t = n THEN cl ELSE IF t = 1 /\ n > EMA_WINDOW THEN c + 10 ELSE c
        vol == IF t = n THEN vl ELSE IF t = 1 /\ n > EMA_WINDOW THEN v + 10 ELSE v
    IN  RawBar(Num(close), Num(close), Num(close), Num(vol))

PriceSeries(n, c, cl, v, vl) ==
    Payload("ts", [i \in 1..n |-> <<n + 1 - i, PriceBar(n, n + 1 - i, c, cl, v, vl)>>])

PriceBarCounts ==
    {1, 2, EMA_FAST - 1, EMA_FAST, EMA_SLOW - 1, EMA_SLOW, SPIKE_MIN - 1, SPIKE_MIN,
     EMA_WINDOW + 1, VWAP_WINDOW + 1}

PricePayloads ==
    { None, Payload("falsy", <<>>), Payload("nonobj", <<>>), Payload("nots", <<>>),
      Payload("ts", <<<<2, RawBar(Num(10), Num(10), Num(10), Num(10))>>,
                      <<1, RawBar(Num(10), Num(10), Num(10), Text)>>>>) }
    \cup { PriceSeries(n, q[1], q[2], q[3], q[4]) :
               n \in PriceBarCounts,
               q \in { <<0, 0, 10, 10>>, <<10, 10, 0, 0>>, <<10, 10, 10, 10>>,
                       <<10, 20, 10, 20>>, <<20, 10, 10, 0>> } }

PriceSnapshots ==
    { None, Snapshot("nonobj", <<>>),
      Snapshot("results", <<RawContract("call", IntVol(50)), RawContract("put", IntVol(30))>>),
      Snapshot("results", <<RawContract("call", IntVol(50)), RawContract("put", Null)>>) }

InitPrice == NewsIdle /\ PriceIdle /\ polygon_key \in BOOLEAN /\ CallIdle

NextPrice ==
    \/ PriceLoopStart /\ UNCHANGED <<newsVars, callVars>>
    \/ PriceEnsureChannelOk /\ UNCHANGED <<newsVars, callVars>>
    \/ PriceEnsureChannelRaise /\ UNCHANGED <<newsVars, callVars>>
    \/ (\E p \in PricePayloads : PriceGetIntraday(p)) /\ UNCHANGED <<newsVars, callVars>>
    \/ (\E d \in PriceSnapshots : PricePolygon(d)) /\ UNCHANGED <<newsVars, callVars>>
    \/ PriceSendOk /\ UNCHANGED <<newsVars, callVars>>
    \/ PriceSendFail /\ UNCHANGED <<newsVars, callVars>>
    \/ OnReadyPrice /\ UNCHANGED <<newsVars, callVars>>

SpecPrice == InitPrice /\ [][NextPrice]_vars

-----------------------------------------------------------------------------
(* Claims about the price task, checked under SpecPrice *)

\* symbol s has been gone through by the running or the latest cycle
Processed(s) == s < si \/ (s = si /\ ppc = "idle")

\* C3: in a price cycle every symbol of the list gets exactly one ch.send
\* if its fetch and its parse succeeded and none otherwise, whatever
\* happened to the other symbols: a cycle that passed ensure_channel goes
\* through all the symbols.
EachSymbolPublishedOnce ==
    /\ \A s \in 1..NumTickers : sends[s] <= 1
    /\ \A s \in 1..NumTickers :
          Processed(s) =>
              /\ outcome[s] # "pending"
              /\ sends[s] = IF outcome[s] = "parsed" THEN 1 ELSE 0
    /\ (ppc = "idle" /\ si > 0) => si = NumTickers
    /\ ppc = "failed" => si = 0

\* a cycle has ended in which the first symbol's fetch failed and the last
\* symbol was parsed and published
PublishedAfterFailedFetch ==
    /\ ppc = "idle"
    /\ si = NumTickers
    /\ outcome[1] = "nofetch"
    /\ sends[1] = 0
    /\ outcome[NumTickers] = "parsed"
    /\ sends[NumTickers] = 1

\* C10: the composed output carries the EMA annotation iff the fast and the
\* slow EMA over the last 50 closes are both non-absent (there are at least
\* 21 closes), with direction up iff fast > slow, and the VWAP annotation
\* iff the VWAP over the last 120 bars is non-absent (their cumulative
\* volume is not zero), whatever value the indicator has, zero included.
AnnotationsIffPresent ==
    msg # None =>
        LET parsed == parse_intraday(fetched.val).val
            n == Len(parsed.closes)
            window == PyTail(parsed.closes, 50)
            fast == ema(window, 9)
            slow == ema(window, 21)
            volume120 == SumSeq(PyTail(parsed.vols, 120))
        IN  /\ (msg.val.ema # None) <=> (Min2(n, 50) >= 21)
            /\ msg.val.ema # None =>
                  msg.val.ema.val.trend = IF FLess(slow.val, fast.val) THEN "up" ELSE "down"
            /\ (msg.val.vwap # None) <=> (volume120 # 0)

=============================================================================
